---- MODULE Spec2Model ----
(***************************************************************************)
(* Service-control layer of the server agent: the allow-list registry      *)
(* (config/agent.js), SystemCtlService (services/systemctl.js) and the     *)
(* generic control endpoint POST /service/:action/:service                 *)
(* (routes/control.js).                                                    *)
(*                                                                         *)
(* Node runs a handler without interruption up to its first await, so a    *)
(* request takes two steps: the synchronous part up to the spawn of the    *)
(* systemctl subprocess (or up to the rejection), and the continuation     *)
(* that runs when the subprocess has ended. Several requests can be        *)
(* between the two steps at the same time.                                 *)
(***************************************************************************)
EXTENDS Integers, Sequences, FiniteSets, TLC

\* ------------------------------------------------------------------ bounds

\* Number of requests (HTTP requests or direct calls of the service) of a run.
MaxRequests == 2

Requests == 1..MaxRequests

\* ---------------------------------------------------------------- registry

\* services.controllable and services.aliases of the shipped configuration.
AgentConfig ==
  [ controllable |-> << "nginx", "apache2", "mysql", "mariadb", "php8.1-fpm",
                        "php8.2-fpm", "php8.3-fpm", "redis-server", "memcached",
                        "supervisor" >>,
    aliases |-> [ a \in {"php-fpm", "database", "web", "cache"} |->
                    CASE a = "php-fpm"  -> << "php8.1-fpm", "php8.2-fpm", "php8.3-fpm" >>
                      [] a = "database" -> << "mysql", "mariadb" >>
                      [] a = "web"      -> << "nginx", "apache2" >>
                      [] a = "cache"    -> << "redis-server", "memcached" >> ] ]

\* Registries a deployment can configure: the shipped one and edits of it in
\* which candidates of an alias are missing from the controllable list, an
\* alias has no candidate, or a name is both a service and an alias.
Registries ==
  { AgentConfig,
    \* the first candidate of database is not controllable
    [ controllable |-> << "nginx", "mariadb" >>,
      aliases |-> [ a \in {"database", "web"} |->
                      IF a = "database" THEN << "mysql", "mariadb" >>
                                        ELSE << "nginx", "apache2" >> ] ],
    \* nginx is a service and an alias with a controllable candidate; no
    \* candidate of database is controllable
    [ controllable |-> << "nginx", "mariadb", "mysql" >>,
      aliases |-> [ a \in {"nginx", "database"} |->
                      IF a = "nginx" THEN << "apache2", "mariadb" >>
                                     ELSE << "postgresql" >> ] ],
    \* nginx is a service and an alias without controllable candidate;
    \* database has no candidate
    [ controllable |-> << "nginx" >>,
      aliases |-> [ a \in {"nginx", "database"} |->
                      IF a = "nginx" THEN << "apache2" >> ELSE << >> ] ] }

\* Every registry over three services and five alias maps: each subset of the
\* services as the controllable list, in the configuration's order.
BaseServices == << "nginx", "mysql", "mariadb" >>

AliasMaps ==
  { [ a \in {} |-> << >> ],
    [ a \in {"database"} |-> << "mysql", "mariadb" >> ],
    [ a \in {"database"} |-> << "mariadb", "mysql" >> ],
    [ a \in {"nginx", "web"} |-> IF a = "nginx" THEN << "mariadb" >>
                                               ELSE << "apache2", "nginx" >> ],
    [ a \in {"mysql", "database"} |-> IF a = "mysql" THEN << "nginx", "mysql" >>
                                                    ELSE << >> ] }

GeneratedRegistries ==
  { [ controllable |-> SelectSeq(BaseServices, LAMBDA s : s \in S), aliases |-> m ] :
      S \in SUBSET { BaseServices[i] : i \in 1..Len(BaseServices) }, m \in AliasMaps }

\* Service names that requests and calls are made with.
ServiceInputs == { "nginx", "database", "postgresql" }

\* Names the registry functions are queried with; "constructor" is a key every
\* JavaScript object inherits from Object.prototype.
ObjectPrototypeKeys == { "constructor" }
Names == ServiceInputs \cup { "mysql", "mariadb", "apache2", "web" } \cup ObjectPrototypeKeys

VARIABLES
  allowedServices,   \* this.allowedServices: sequence of names
  serviceAliases,    \* this.serviceAliases: alias key -> sequence of names
  pc,                \* per request: "idle", "executing", "scheduled",
                     \*   "shutting-down", "done"
  kind,              \* per request: "route" (POST /service/:action/:service),
                     \*   "call" (executeSystemCtl called directly) or
                     \*   "restart-server" (POST /restart/server)
  confirm,           \* per request: body.confirm of POST /restart/server
  action,            \* per request: the action string of the request
  service,           \* per request: the service string of the request
  commands,          \* per request: the subprocesses spawned for it
  audits,            \* per request: the logSystemEvent calls made for it
  result,            \* per request: how executeSystemCtl settled
  responses,         \* per request: the HTTP responses sent for it
  query,             \* registry query: the function and the name it was given
  answer,            \* registry query: what the function returned
  statusRun,         \* GET /services/status: the run of getAllServicesStatus
  headers,           \* per request: its X-API-Key and Authorization headers
  site,              \* per request: body.site of POST /cache/clear-site
  envFile,           \* /etc/gridpane-manager/.env: its lines
  processEnv,        \* process.env.API_KEY
  keyRequests        \* per request of the API key routes: its inputs, its
                     \*   position and what it read

registry == << allowedServices, serviceAliases >>
requestVars == << pc, kind, confirm, action, service, commands, audits, result, responses,
                  headers, site >>
apiKeyVars == << envFile, processEnv, keyRequests >>
queryVars == << query, answer >>
vars == << allowedServices, serviceAliases, pc, kind, confirm, action, service, commands,
           audits, result, responses, query, answer, statusRun, headers, site,
           envFile, processEnv, keyRequests >>

\* ------------------------------------------------------ SystemCtlService

\* Array.prototype.includes
Includes(array, x) == \E i \in 1..Len(array) : array[i] = x

\* Mutant of SomeAllowed: every candidate instead of some candidate.
SomeAllowed_Every(services) ==
  \A i \in 1..Len(services) : Includes(allowedServices, services[i])

\* Array.prototype.some with the predicate of isServiceAllowed
SomeAllowed(services) == \E i \in 1..Len(services) : Includes(allowedServices, services[i])

\* Mutant of isServiceAllowed: an alias key is allowed whatever its candidates.
isServiceAllowed_AnyAlias(serviceName) ==
  Includes(allowedServices, serviceName) \/ serviceName \in DOMAIN serviceAliases

\* isServiceAllowed(serviceName): the direct name, then the own entries of the
\* alias map (Object.entries) whose key is the name.
isServiceAllowed(serviceName) ==
  IF Includes(allowedServices, serviceName)
    THEN TRUE
    ELSE \E alias \in DOMAIN serviceAliases :
           alias = serviceName /\ SomeAllowed(serviceAliases[alias])

\* What resolveServiceName returns when iterating the looked-up value throws
\* (TypeError: ... is not iterable); no service has this name.
NotIterable == "TypeError: not iterable"

\* Mutant of FirstAllowedFrom: a later controllable candidate wins.
RECURSIVE FirstAllowedFrom_Last(_, _, _)
FirstAllowedFrom_Last(services, i, fallback) ==
  IF i > Len(services) THEN fallback
  ELSE FirstAllowedFrom_Last(services, i + 1,
         IF Includes(allowedServices, services[i]) THEN services[i] ELSE fallback)

\* The loop of resolveServiceName over the candidates from index i on: the
\* first candidate that is in the controllable list, or fallback after the loop.
RECURSIVE FirstAllowedFrom(_, _, _)
FirstAllowedFrom(services, i, fallback) ==
  IF i > Len(services) THEN fallback
  ELSE IF Includes(allowedServices, services[i]) THEN services[i]
  ELSE FirstAllowedFrom(services, i + 1, fallback)

\* Mutant of resolveServiceName: the first candidate, controllable or not.
resolveServiceName_FirstCandidate(serviceName) ==
  IF serviceName \in DOMAIN serviceAliases /\ Len(serviceAliases[serviceName]) > 0
    THEN serviceAliases[serviceName][1]
    ELSE serviceName

\* resolveServiceName(serviceName). this.serviceAliases[serviceName] is an own
\* array (truthy also when empty), an inherited member of Object.prototype
\* (truthy, not iterable) or undefined.
resolveServiceName(serviceName) ==
  IF serviceName \in DOMAIN serviceAliases
    THEN FirstAllowedFrom(serviceAliases[serviceName], 1, serviceName)
  ELSE IF serviceName \in ObjectPrototypeKeys
    THEN NotIterable
  ELSE serviceName

\* -------------------------------------- POST /update, POST /setup-token

\* The requests of the API key routes.
MaxKeyRequests == 2
KeyRequests == 1..MaxKeyRequests

\* A string is a sequence of atoms: "=" is the character '=', every other atom
\* is a run of RunLength characters that are neither '=' nor a line feed, and
\* two atoms of different names are different runs.
RunLength == 31
MinKeyLength == 32

\* undefined (a header or a body field the request does not have) and null
Undefined == << "undefined" >>
Null == << "null" >>

\* String.prototype.length
RECURSIVE StrLen(_)
StrLen(str) ==
  IF str = << >> THEN 0
  ELSE (IF Head(str) = "=" THEN 1 ELSE RunLength) + StrLen(Tail(str))

\* A value that is not falsy: not undefined, not null, not ''.
Truthy(str) == str # Undefined /\ str # Null /\ str # << >>

\* line.split('=')[1] for a line NAME=value: what stands between the first
\* '=' of the line and the next one.
RECURSIVE UpToEquals(_)
UpToEquals(value) ==
  IF value = << >> \/ Head(value) = "=" THEN << >>
  ELSE << Head(value) >> \o UpToEquals(Tail(value))

\* A line NAME=value of the env file; a comment line has the name "#". The
\* file is kept as its lines: no string of the inputs holds a line feed, so
\* join('\n') and split('\n') are inverse to each other here.
Line(name, value) == [ name |-> name, value |-> value ]

\* line.startsWith('NAME=')
StartsWith(line, name) == line.name = name

\* envLines.find(line => line.startsWith('NAME=')): its index, 0 for undefined
Find(envLines, name) ==
  IF \E i \in 1..Len(envLines) : StartsWith(envLines[i], name)
    THEN CHOOSE i \in 1..Len(envLines) :
           /\ StartsWith(envLines[i], name)
           /\ \A j \in 1..(i - 1) : ~StartsWith(envLines[j], name)
    ELSE 0

\* storedApiKey and storedSetupToken of POST /update
Stored(envLines, name) ==
  IF Find(envLines, name) = 0 THEN Null
  ELSE UpToEquals(envLines[Find(envLines, name)].value)

SetupTokenRemoved == Line("#", << "SETUP_TOKEN removed after API key update" >>)

\* updatedEnvLines of POST /update
UpdatedEnvLines(envLines, newApiKey) ==
  LET mapped == [ i \in 1..Len(envLines) |->
                    IF StartsWith(envLines[i], "API_KEY") THEN Line("API_KEY", newApiKey)
                    ELSE IF StartsWith(envLines[i], "SETUP_TOKEN") THEN SetupTokenRemoved
                    ELSE envLines[i] ] IN
    IF Find(envLines, "API_KEY") = 0
      THEN Append(mapped, Line("API_KEY", newApiKey))
      ELSE mapped

\* updatedEnvLines of POST /setup-token
WithSetupToken(envLines, setupToken) ==
  Append(SelectSeq(envLines, LAMBDA line : ~StartsWith(line, "SETUP_TOKEN")),
         Line("SETUP_TOKEN", setupToken))

\* crypto.randomBytes(32).toString('hex') of request k: a token that no
\* other request generates.
TokenOf(k) == << "T" \o ToString(k) >>

\* The key and the setup token the installer wrote.
InstalledKey == << "K" >>
InstalledToken == << "T0" >>

\* The env file at process start: as install-minimal.sh leaves it with a
\* generated key (and a setup token) or with the administrator's key; with
\* the key unset and a setup token generated earlier; without API_KEY line.
EnvFiles ==
  { << Line("API_KEY", InstalledKey), Line("SETUP_TOKEN", InstalledToken),
       Line("SERVER_ID", << "S" >>) >>,
    << Line("API_KEY", InstalledKey), Line("SERVER_ID", << "S" >>) >>,
    << Line("API_KEY", << >>), Line("SETUP_TOKEN", InstalledToken),
       Line("SERVER_ID", << "S" >>) >>,
    << Line("SERVER_ID", << "S" >>) >> }

\* process.env.API_KEY at process start, loaded from the env file
LoadedKey(envLines) ==
  IF Find(envLines, "API_KEY") = 0 THEN Undefined
  ELSE envLines[Find(envLines, "API_KEY")].value

\* What a request of POST /update carries.
UpdateInput(newApiKey, xApiKey, xSetupToken, setupToken) ==
  [ newApiKey |-> newApiKey, xApiKey |-> xApiKey,
    xSetupToken |-> xSetupToken, setupToken |-> setupToken ]

UpdateInputs ==
  { UpdateInput(<< "A", "B" >>, InstalledKey, Undefined, Undefined),
    UpdateInput(<< "A", "=", "B" >>, InstalledKey, Undefined, Undefined),
    UpdateInput(<< "=", "A" >>, InstalledKey, Undefined, Undefined),
    UpdateInput(<< "A" >>, InstalledKey, Undefined, Undefined),
    UpdateInput(<< "B", "A" >>, << "A", "B" >>, Undefined, Undefined),
    UpdateInput(<< "A", "B" >>, << "A", "=", "B" >>, Undefined, Undefined),
    UpdateInput(<< "A", "B" >>, << "A" >>, Undefined, Undefined),
    UpdateInput(<< "A", "B" >>, Undefined, InstalledToken, Undefined),
    UpdateInput(<< "A", "B" >>, Undefined, Undefined, InstalledToken),
    UpdateInput(<< "A", "B" >>, Undefined, TokenOf(1), Undefined),
    UpdateInput(<< "A", "B" >>, Undefined, Undefined, Undefined) }

NoUpdateInput == UpdateInput(Undefined, Undefined, Undefined, Undefined)

IdleKeyRequest ==
  [ pc |-> "idle", route |-> "none", input |-> NoUpdateInput, read |-> << >>,
    pending |-> << >>, authMethod |-> "none", status |-> 0, setupToken |-> Undefined,
    audits |-> << >> ]

\* No request of the API key routes has been made.
NoKeyRequests ==
  /\ envFile = << Line("API_KEY", InstalledKey), Line("SERVER_ID", << "S" >>) >>
  /\ processEnv = InstalledKey
  /\ keyRequests = [ k \in KeyRequests |-> IdleKeyRequest ]

\* Requests are numbered in the order in which they read the env file.
KeyArrives(k) ==
  /\ keyRequests[k].pc = "idle"
  /\ k > 1 => keyRequests[k - 1].pc # "idle"

\* !newApiKey || typeof newApiKey !== 'string' || newApiKey.length < 32
InvalidKeyFormat(newApiKey) == ~Truthy(newApiKey) \/ StrLen(newApiKey) < MinKeyLength

\* The request is over with this HTTP status.
KeyRequestDone(request, status) == [ request EXCEPT !.pc = "done", !.status = status ]

\* POST /update up to its await of fs.writeFile: the validation, the read of
\* the env file (the request is taken to arrive when its read is served), the
\* authentication against what was read, and the lines to write.
UpdateReceive(k, input, readOk) ==
  /\ KeyArrives(k)
  /\ LET request == [ keyRequests[k] EXCEPT !.route = "update", !.input = input ]
         envLines == envFile
         storedApiKey == Stored(envLines, "API_KEY")
         storedSetupToken == Stored(envLines, "SETUP_TOKEN")
         isValidApiKey == Truthy(storedApiKey) /\ input.xApiKey = storedApiKey
         isValidSetupToken ==
           /\ Truthy(storedSetupToken)
           /\ \/ input.xSetupToken = storedSetupToken
              \/ input.setupToken = storedSetupToken IN
       keyRequests' = [ keyRequests EXCEPT ![k] =
         IF InvalidKeyFormat(input.newApiKey) THEN KeyRequestDone(request, 400)
         ELSE IF ~readOk THEN KeyRequestDone(request, 500)
         ELSE IF ~isValidApiKey /\ ~isValidSetupToken
           THEN KeyRequestDone([ request EXCEPT !.read = envLines ], 401)
         ELSE [ request EXCEPT
                  !.pc = "writing",
                  !.read = envLines,
                  !.pending = UpdatedEnvLines(envLines, input.newApiKey),
                  !.authMethod = IF isValidApiKey THEN "current_key" ELSE "setup_token" ] ]
  /\ UNCHANGED << registry, requestVars, queryVars, statusRun, envFile, processEnv >>

\* fs.writeFile of POST /update ends and the handler continues: the runtime
\* key is set, the API_KEY_UPDATED event is written (a write that throws
\* ends in the outer catch) and the response is sent.
UpdateWritten(k, writeOk, sinkOk) ==
  /\ keyRequests[k].pc = "writing"
  /\ keyRequests[k].route = "update"
  /\ LET request == keyRequests[k]
         event == [ event |-> "API_KEY_UPDATED", requestId |-> k,
                    authMethod |-> request.authMethod, written |-> sinkOk ] IN
       IF ~writeOk
         THEN /\ keyRequests' = [ keyRequests EXCEPT ![k] = KeyRequestDone(request, 500) ]
              /\ UNCHANGED << envFile, processEnv >>
         ELSE /\ envFile' = request.pending
              /\ processEnv' = request.input.newApiKey
              /\ keyRequests' = [ keyRequests EXCEPT ![k] =
                   KeyRequestDone([ request EXCEPT !.audits = Append(@, event) ],
                                  IF sinkOk THEN 200 ELSE 500) ]
  /\ UNCHANGED << registry, requestVars, queryVars, statusRun >>

\* POST /setup-token up to its await of fs.writeFile.
SetupTokenReceive(k, readOk) ==
  /\ KeyArrives(k)
  /\ LET request == [ keyRequests[k] EXCEPT !.route = "setup-token" ]
         envLines == envFile
         currentApiKeyLine == Find(envLines, "API_KEY") IN
       keyRequests' = [ keyRequests EXCEPT ![k] =
         IF ~readOk THEN KeyRequestDone(request, 500)
         ELSE IF currentApiKeyLine # 0 /\ Truthy(UpToEquals(envLines[currentApiKeyLine].value))
           THEN KeyRequestDone([ request EXCEPT !.read = envLines ], 400)
         ELSE [ request EXCEPT
                  !.pc = "writing",
                  !.read = envLines,
                  !.pending = WithSetupToken(envLines, TokenOf(k)) ] ]
  /\ UNCHANGED << registry, requestVars, queryVars, statusRun, envFile, processEnv >>

\* fs.writeFile of POST /setup-token ends and the token is sent.
SetupTokenWritten(k, writeOk) ==
  /\ keyRequests[k].pc = "writing"
  /\ keyRequests[k].route = "setup-token"
  /\ IF ~writeOk
       THEN /\ keyRequests' = [ keyRequests EXCEPT ![k] = KeyRequestDone(@, 500) ]
            /\ UNCHANGED envFile
       ELSE /\ envFile' = keyRequests[k].pending
            /\ keyRequests' = [ keyRequests EXCEPT ![k] =
                 KeyRequestDone([ @ EXCEPT !.setupToken = TokenOf(k) ], 200) ]
  /\ UNCHANGED << registry, requestVars, queryVars, statusRun, processEnv >>

\* ------------------------------------------------------- registry queries

\* No GET /services/status request has been made.
NoStatusRun ==
  [ pc |-> "idle", i |-> 0, results |-> [ n \in {} |-> 0 ], aliases |-> [ n \in {} |-> 0 ] ]

NoQuery == [ fn |-> "none", name |-> "" ]

\* A caller asks isServiceAllowed(name).
QueryAllowed(name) ==
  /\ query' = [ fn |-> "isServiceAllowed", name |-> name ]
  /\ answer' = isServiceAllowed(name)
  /\ UNCHANGED << registry, requestVars, statusRun, apiKeyVars >>

\* A caller asks resolveServiceName(name).
QueryResolve(name) ==
  /\ query' = [ fn |-> "resolveServiceName", name |-> name ]
  /\ answer' = resolveServiceName(name)
  /\ UNCHANGED << registry, requestVars, statusRun, apiKeyVars >>

\* A request that has not arrived has no headers.
NoHeaders == [ server |-> "none", xApiKey |-> Undefined, authorization |-> Undefined ]

IdleRequests ==
  /\ pc = [ r \in Requests |-> "idle" ]
  /\ kind = [ r \in Requests |-> "none" ]
  /\ confirm = [ r \in Requests |-> "" ]
  /\ action = [ r \in Requests |-> "" ]
  /\ service = [ r \in Requests |-> "" ]
  /\ commands = [ r \in Requests |-> << >> ]
  /\ audits = [ r \in Requests |-> << >> ]
  /\ result = [ r \in Requests |-> << >> ]
  /\ responses = [ r \in Requests |-> << >> ]
  /\ headers = [ r \in Requests |-> NoHeaders ]
  /\ site = [ r \in Requests |-> "" ]

\* The service is constructed from a registry; nothing has been asked yet.
InitRegistry ==
  /\ \E reg \in Registries \cup GeneratedRegistries :
       /\ allowedServices = reg.controllable
       /\ serviceAliases = reg.aliases
  /\ IdleRequests
  /\ query = NoQuery
  /\ answer = FALSE
  /\ statusRun = NoStatusRun
  /\ NoKeyRequests

NextRegistry ==
  \/ \E name \in Names : QueryAllowed(name)
  \/ \E name \in Names : QueryResolve(name)

SpecRegistry == InitRegistry /\ [][NextRegistry]_vars

\* ------------------------------------------------------- executeSystemCtl

\* allowedActions of executeSystemCtl
allowedActions == << "start", "stop", "restart", "reload", "status", "is-active", "is-enabled" >>

\* allowedActions of the handler of POST /service/:action/:service
routeAllowedActions == << "start", "stop", "restart", "reload" >>

\* Action strings that requests are sent with.
RouteActionInputs == { "restart", "status", "poweroff" }

\* Action strings that executeSystemCtl is called with: status by
\* getServiceStatus, any other string by a module that imports the service.
CallActionInputs == { "status", "poweroff" }

\* Errors, by the text of their message.
ServiceNotAllowed(s) == [ name |-> "Service is not allowed to be controlled", about |-> s ]
ActionNotAllowed(a) == [ name |-> "Action is not allowed", about |-> a ]
IterationTypeError(s) == [ name |-> "TypeError: not iterable", about |-> s ]
CommandFailed(c) == [ name |-> "Command failed", about |-> c ]
CommandTimedOut(c) == [ name |-> "Command timed out", about |-> c ]
AuditWriteFailed(e) == [ name |-> "Audit write failed", about |-> e ]

\* `sudo systemctl ${action} ${resolvedService}`, word by word
Command(a, resolvedService) == << "sudo", "systemctl", a, resolvedService >>

\* Mutant of ActionAllowed: the action is not validated.
ActionAllowed_Always(a) == TRUE

\* allowedActions.includes(action)
ActionAllowed(a) == Includes(allowedActions, a)

\* Mutant of TryBlock: a service that has a command running is busy, and a
\* second request for it is rejected.
TryBlock_RejectsBusy(a, s) ==
  IF ~isServiceAllowed(s)
    THEN [ spawn |-> FALSE, error |-> ServiceNotAllowed(s) ]
  ELSE LET resolvedService == resolveServiceName(s) IN
    IF resolvedService = NotIterable
      THEN [ spawn |-> FALSE, error |-> IterationTypeError(s) ]
    ELSE IF ~ActionAllowed(a)
      THEN [ spawn |-> FALSE, error |-> ActionNotAllowed(a) ]
    ELSE IF \E q \in Requests : pc[q] = "executing" /\ commands[q][1][4] = resolvedService
      THEN [ spawn |-> FALSE, error |-> [ name |-> "Service is busy", about |-> s ] ]
    ELSE [ spawn |-> TRUE, resolvedService |-> resolvedService,
           command |-> Command(a, resolvedService) ]

\* The synchronous part of the try block of executeSystemCtl(a, s): validate
\* the service, resolve it, validate the action, build the command. It ends
\* with the command to spawn or with the error thrown.
TryBlock(a, s) ==
  IF ~isServiceAllowed(s)
    THEN [ spawn |-> FALSE, error |-> ServiceNotAllowed(s) ]
  ELSE LET resolvedService == resolveServiceName(s) IN
    IF resolvedService = NotIterable
      THEN [ spawn |-> FALSE, error |-> IterationTypeError(s) ]
    ELSE IF ~ActionAllowed(a)
      THEN [ spawn |-> FALSE, error |-> ActionNotAllowed(a) ]
    ELSE [ spawn |-> TRUE, resolvedService |-> resolvedService,
           command |-> Command(a, resolvedService) ]

\* logger.logSystemEvent(event, {requestId, action, service, ...}) for request
\* r: the event is written when the log sink takes the write; when it does
\* not, the call throws and no event is written.
AuditEvent(event, r, a, s, sinkOk) ==
  [ event |-> event, requestId |-> r, action |-> a, service |-> s, written |-> sinkOk ]

Logged(events, sinkOk, event, r, a, s) == Append(events, AuditEvent(event, r, a, s, sinkOk))

\* The catch block of executeSystemCtl entered with error: it writes the
\* SYSTEMCTL_FAILED event and rethrows; when the write throws, that error
\* leaves the block instead.
CatchBlock(events, error, exit, sinkOk, r, a, s) ==
  [ audits |-> Logged(events, sinkOk, "SYSTEMCTL_FAILED", r, a, s),
    settled |-> [ success |-> FALSE, resolvedService |-> "", exit |-> exit,
                  error |-> IF sinkOk THEN error.name
                                      ELSE AuditWriteFailed("SYSTEMCTL_FAILED").name ] ]

\* The try block after the await of execAsync: the command ended with
\* outcome; on success the SYSTEMCTL_SUCCESS event is written and the result
\* returned, and a throwing write enters the catch block like a failed command.
AfterExec(r, a, s, resolvedService, command, outcome, sinkOk, sinkOkInCatch) ==
  IF outcome = "ok"
    THEN LET events == Logged(audits[r], sinkOk, "SYSTEMCTL_SUCCESS", r, a, s) IN
      IF sinkOk
        THEN [ audits |-> events,
               settled |-> [ success |-> TRUE, resolvedService |-> resolvedService,
                             exit |-> outcome, error |-> "" ] ]
        ELSE CatchBlock(events, AuditWriteFailed("SYSTEMCTL_SUCCESS"), outcome,
                        sinkOkInCatch, r, a, s)
  ELSE CatchBlock(audits[r],
                  IF outcome = "failed" THEN CommandFailed(command)
                                        ELSE CommandTimedOut(command),
                  outcome, sinkOkInCatch, r, a, s)

\* --------------------------------------- POST /service/:action/:service

\* res.status(400).json(...) of the action check of the handler
InvalidActionResponse(r) ==
  [ status |-> 400, success |-> FALSE, error |-> "Invalid action",
    message |-> "Action must be one of", requestId |-> r ]

\* res.json(...) after the service method returned
SuccessResponse(r, settled) ==
  [ status |-> 200, success |-> TRUE, error |-> "", message |-> "completed successfully",
    requestId |-> r ]

\* res.status(500).json(...) of the catch block of the handler
FailureResponse(r, settled) ==
  [ status |-> 500, success |-> FALSE, error |-> "Failed to", message |-> settled.error,
    requestId |-> r ]

\* The handler once the service method has settled.
Respond(r, settled) ==
  IF settled.success THEN SuccessResponse(r, settled) ELSE FailureResponse(r, settled)

\* Mutant of Reply: a request whose command timed out is never answered.
Reply_NotOnTimeout(sent, r, settled) ==
  IF settled.exit = "timeout" THEN sent ELSE Append(sent, Respond(r, settled))

\* The handler answers request r, to which sent was sent so far, once the
\* service method has settled: res.json or res.status(500).json.
Reply(sent, r, settled) == Append(sent, Respond(r, settled))

\* Requests are numbered in the order they arrive.
Arrives(r) ==
  /\ pc[r] = "idle"
  /\ r > 1 => pc[r - 1] # "idle"

\* executeSystemCtl(a, s) up to its await, for request r: the subprocess is
\* spawned, or the call has settled with the error of the catch block.
Execute(r, a, s, sinkOk) ==
  LET try == TryBlock(a, s) IN
    IF try.spawn
      THEN /\ pc' = [ pc EXCEPT ![r] = "executing" ]
           /\ commands' = [ commands EXCEPT ![r] = Append(@, try.command) ]
           /\ UNCHANGED << audits, result >>
      ELSE LET catch == CatchBlock(audits[r], try.error, "none", sinkOk, r, a, s) IN
           /\ pc' = [ pc EXCEPT ![r] = "done" ]
           /\ audits' = [ audits EXCEPT ![r] = catch.audits ]
           /\ result' = [ result EXCEPT ![r] = << catch.settled >> ]
           /\ UNCHANGED commands

\* A client sends POST /service/a/s. The handler checks the action and calls
\* startService, stopService, restartService or reloadService, each of which
\* is executeSystemCtl with that action.
ServiceRoute(r, a, s, sinkOk) ==
  /\ Arrives(r)
  /\ kind' = [ kind EXCEPT ![r] = "route" ]
  /\ action' = [ action EXCEPT ![r] = a ]
  /\ service' = [ service EXCEPT ![r] = s ]
  /\ IF ~Includes(routeAllowedActions, a)
       THEN /\ pc' = [ pc EXCEPT ![r] = "done" ]
            /\ responses' = [ responses EXCEPT ![r] = Append(@, InvalidActionResponse(r)) ]
            /\ UNCHANGED << commands, audits, result >>
       ELSE /\ Execute(r, a, s, sinkOk)
            /\ responses' = [ responses EXCEPT ![r] =
                 IF pc'[r] = "done" THEN Reply(@, r, result'[r][1]) ELSE @ ]
  /\ UNCHANGED << confirm, registry, queryVars, statusRun, site, apiKeyVars >>

\* The request reaches the handler without passing an authentication
\* middleware of this model.
RouteReceive(r, a, s, sinkOk) ==
  /\ ServiceRoute(r, a, s, sinkOk)
  /\ UNCHANGED headers

\* A module calls systemctl.executeSystemCtl(a, s) itself.
CallReceive(r, a, s, sinkOk) ==
  /\ Arrives(r)
  /\ kind' = [ kind EXCEPT ![r] = "call" ]
  /\ action' = [ action EXCEPT ![r] = a ]
  /\ service' = [ service EXCEPT ![r] = s ]
  /\ Execute(r, a, s, sinkOk)
  /\ UNCHANGED << confirm, responses, registry, queryVars, statusRun, headers, site, apiKeyVars >>

\* The subprocess of request r ends (exit status 0, another exit status, or
\* killed at the timeout) and executeSystemCtl continues behind its await; a
\* request of the route is answered.
ExecEnd(r, outcome, sinkOk, sinkOkInCatch) ==
  /\ pc[r] = "executing"
  /\ LET command == commands[r][Len(commands[r])]
         after == AfterExec(r, action[r], service[r], command[4], command,
                            outcome, sinkOk, sinkOkInCatch) IN
       /\ audits' = [ audits EXCEPT ![r] = after.audits ]
       /\ result' = [ result EXCEPT ![r] = << after.settled >> ]
       /\ responses' = [ responses EXCEPT ![r] =
            IF kind[r] = "route" THEN Reply(@, r, after.settled) ELSE @ ]
  /\ pc' = [ pc EXCEPT ![r] = "done" ]
  /\ UNCHANGED << kind, confirm, action, service, commands, registry, queryVars, statusRun, headers, site, apiKeyVars >>

Outcomes == { "ok", "failed", "timeout" }

\* ------------------------------------------------- POST /restart/server

\* Values of body.confirm that requests are sent with; "" is a body without
\* the field.
ConfirmInputs == { "yes", "no", "" }

\* A validation chain that accepts every confirm field that is present.
Confirmed_NonEmpty(c) == c # ""

\* body('confirm').equals('yes') of the validation chain
Confirmed(c) == c = "yes"

\* logger.logSystemEvent(event, { ip, user }) of the restart handler
ServerEvent(event, sinkOk) == [ event |-> event, written |-> sinkOk ]

\* res.status(400).json(...) of the confirmation check
ConfirmationRequiredResponse ==
  [ status |-> 400, error |-> "Confirmation required",
    message |-> "Must confirm server restart with yes" ]

\* res.json(...) sent before the restart is scheduled
RestartInitiatedResponse ==
  [ status |-> 200, success |-> TRUE, message |-> "Server restart initiated" ]

\* res.status(500).json(...) of the catch block of the restart handler
RestartFailedResponse ==
  [ status |-> 500, error |-> "Failed to restart server", message |-> "Audit write failed" ]

\* 'sudo shutdown -r +1 "..."', word by word
ShutdownCommand == << "sudo", "shutdown", "-r", "+1" >>

\* A client sends POST /restart/server with body.confirm = c. Without the
\* confirmation the handler answers 400. With it, it writes
\* SERVER_RESTART_REQUESTED, answers, and sets the timer of the restart; when
\* that write throws, the catch block writes SERVER_RESTART_FAILED and
\* answers 500, and when this write throws too the handler's promise rejects
\* with no response sent.
RestartServerReceive(r, c, sinkOk, sinkOkInCatch) ==
  /\ Arrives(r)
  /\ kind' = [ kind EXCEPT ![r] = "restart-server" ]
  /\ confirm' = [ confirm EXCEPT ![r] = c ]
  /\ IF ~Confirmed(c)
       THEN /\ pc' = [ pc EXCEPT ![r] = "done" ]
            /\ responses' = [ responses EXCEPT ![r] = Append(@, ConfirmationRequiredResponse) ]
            /\ UNCHANGED audits
       ELSE IF sinkOk
         THEN /\ pc' = [ pc EXCEPT ![r] = "scheduled" ]
              /\ audits' = [ audits EXCEPT ![r] =
                   Append(@, ServerEvent("SERVER_RESTART_REQUESTED", TRUE)) ]
              /\ responses' = [ responses EXCEPT ![r] = Append(@, RestartInitiatedResponse) ]
         ELSE /\ pc' = [ pc EXCEPT ![r] = "done" ]
              /\ audits' = [ audits EXCEPT ![r] =
                   @ \o << ServerEvent("SERVER_RESTART_REQUESTED", FALSE),
                           ServerEvent("SERVER_RESTART_FAILED", sinkOkInCatch) >> ]
              /\ responses' = [ responses EXCEPT ![r] =
                   IF sinkOkInCatch THEN Append(@, RestartFailedResponse) ELSE @ ]
  /\ UNCHANGED << action, service, commands, result, registry, queryVars, statusRun, headers, site, apiKeyVars >>

\* A handler that keeps one timer for all requests: when it fires, the other
\* scheduled restarts are dropped.
RestartTimerFires_OneTimer(r, sinkOk) ==
  /\ pc[r] = "scheduled"
  /\ audits' = [ audits EXCEPT ![r] = Append(@, ServerEvent("SERVER_RESTART_EXECUTING", sinkOk)) ]
  /\ pc' = [ q \in Requests |->
              IF q = r THEN (IF sinkOk THEN "shutting-down" ELSE "done")
              ELSE IF pc[q] = "scheduled" THEN "done" ELSE pc[q] ]
  /\ commands' = IF sinkOk THEN [ commands EXCEPT ![r] = Append(@, ShutdownCommand) ]
                          ELSE commands
  /\ UNCHANGED << kind, confirm, action, service, result, responses, registry, queryVars, statusRun, headers, site, apiKeyVars >>

\* The timer of request r fires, 5 seconds after its response: the callback
\* writes SERVER_RESTART_EXECUTING and spawns the shutdown command; when the
\* write throws, the callback's catch logs the error and no command is spawned.
RestartTimerFires(r, sinkOk) ==
  /\ pc[r] = "scheduled"
  /\ audits' = [ audits EXCEPT ![r] = Append(@, ServerEvent("SERVER_RESTART_EXECUTING", sinkOk)) ]
  /\ IF sinkOk
       THEN /\ pc' = [ pc EXCEPT ![r] = "shutting-down" ]
            /\ commands' = [ commands EXCEPT ![r] = Append(@, ShutdownCommand) ]
       ELSE /\ pc' = [ pc EXCEPT ![r] = "done" ]
            /\ UNCHANGED commands
  /\ UNCHANGED << kind, confirm, action, service, result, responses, registry, queryVars, statusRun, headers, site, apiKeyVars >>

\* The shutdown command of request r ends; a failure is logged, nothing else.
ShutdownEnd(r) ==
  /\ pc[r] = "shutting-down"
  /\ pc' = [ pc EXCEPT ![r] = "done" ]
  /\ UNCHANGED << kind, confirm, action, service, commands, audits, result, responses,
                  registry, queryVars, statusRun, headers, site, apiKeyVars >>

\* ------------------------------------------- POST /cache/clear-site

\* req.body.site: missing, a site name, a string with shell syntax
SiteInputs == { "", "example.com", "example.com; reboot" }

\* logger.logSystemEvent('SITE_CACHE_CLEAR_*', { site, ... })
SiteEvent(event, s, sinkOk) == [ event |-> event, site |-> s, written |-> sinkOk ]

\* `gp site ${site} cache clear`, word by word; exec runs it in a shell
ClearSiteCommand(s) == << "gp", "site", s, "cache", "clear" >>

SiteValidationFailedResponse == [ status |-> 400, error |-> "Validation failed" ]
SiteCacheClearedResponse == [ status |-> 200, success |-> TRUE, message |-> "Cache cleared" ]
SiteCacheFailedResponse == [ status |-> 500, error |-> "Failed to clear site cache" ]

\* The catch block of the handler: SITE_CACHE_CLEAR_FAILED is written and 500
\* is sent; when that write throws too, the handler ends without response.
ClearSiteCatch(r, s, events, sinkOkInCatch) ==
  /\ audits' = [ audits EXCEPT ![r] =
       Append(events, SiteEvent("SITE_CACHE_CLEAR_FAILED", s, sinkOkInCatch)) ]
  /\ responses' = [ responses EXCEPT ![r] =
       IF sinkOkInCatch THEN Append(@, SiteCacheFailedResponse) ELSE @ ]
  /\ pc' = [ pc EXCEPT ![r] = "done" ]

\* A client sends POST /cache/clear-site with body.site = s: the handler up to
\* its await of the gp command.
ClearSiteRoute(r, s, sinkOk, sinkOkInCatch) ==
  /\ Arrives(r)
  /\ kind' = [ kind EXCEPT ![r] = "clear-site" ]
  /\ site' = [ site EXCEPT ![r] = s ]
  /\ LET requested == Append(audits[r], SiteEvent("SITE_CACHE_CLEAR_REQUESTED", s, sinkOk)) IN
       IF s = ""
         THEN /\ pc' = [ pc EXCEPT ![r] = "done" ]
              /\ responses' = [ responses EXCEPT ![r] = Append(@, SiteValidationFailedResponse) ]
              /\ UNCHANGED << commands, audits >>
       ELSE IF ~sinkOk
         THEN /\ ClearSiteCatch(r, s, requested, sinkOkInCatch)
              /\ UNCHANGED commands
       ELSE /\ pc' = [ pc EXCEPT ![r] = "clearing" ]
            /\ audits' = [ audits EXCEPT ![r] = requested ]
            /\ commands' = [ commands EXCEPT ![r] = Append(@, ClearSiteCommand(s)) ]
            /\ UNCHANGED responses
  /\ UNCHANGED << confirm, action, service, result, registry, queryVars, statusRun, apiKeyVars >>

\* The gp command of request r ends and the handler continues.
ClearSiteEnd(r, exitOk, sinkOk, sinkOkInCatch) ==
  /\ pc[r] = "clearing"
  /\ LET succeeded == Append(audits[r], SiteEvent("SITE_CACHE_CLEAR_SUCCESS", site[r], sinkOk)) IN
       IF exitOk /\ sinkOk
         THEN /\ audits' = [ audits EXCEPT ![r] = succeeded ]
              /\ responses' = [ responses EXCEPT ![r] = Append(@, SiteCacheClearedResponse) ]
              /\ pc' = [ pc EXCEPT ![r] = "done" ]
         ELSE ClearSiteCatch(r, site[r], IF exitOk THEN succeeded ELSE audits[r], sinkOkInCatch)
  /\ UNCHANGED << kind, confirm, action, service, site, commands, result, headers,
                  registry, queryVars, statusRun, apiKeyVars >>

\* -------------------------------------------------- authentication

\* agentConfig.security.apiKey and process.env.API_KEY of the backend: the
\* configured key; JWT: a token that jwt.verify accepts with JWT_SECRET.
ConfiguredApiKey == InstalledKey
ValidJwt == << "J" >>

\* The headers of a request: server is the process it is sent to.
Headers(server, xApiKey, authorization) ==
  [ server |-> server, xApiKey |-> xApiKey, authorization |-> authorization ]

\* "Bearer " is the atom of the scheme word with its space; "W" is a wrong key.
XApiKeyInputs == { Undefined, << >>, ConfiguredApiKey, << "W" >> }
AuthorizationInputs ==
  { Undefined, << "Bearer " >> \o ConfiguredApiKey, ConfiguredApiKey,
    << "Bearer ", "W" >>, << "Bearer ", "Bearer " >> \o ConfiguredApiKey,
    << "Bearer " >> \o ValidJwt }

\* str.replace('Bearer ', ''): the first occurrence is removed
RECURSIVE ReplaceBearer(_)
ReplaceBearer(str) ==
  IF str = << >> THEN << >>
  ELSE IF Head(str) = "Bearer " THEN Tail(str)
  ELSE << Head(str) >> \o ReplaceBearer(Tail(str))

\* The word of a string up to its next space.
RECURSIVE FirstWord(_)
FirstWord(str) ==
  IF str = << >> THEN << >>
  ELSE IF Head(str) = "Bearer " THEN << "Bearer" >>
  ELSE << Head(str) >> \o FirstWord(Tail(str))

\* authHeader && authHeader.split(' ')[1]
SecondWord(authHeader) ==
  IF ~Truthy(authHeader) THEN authHeader
  ELSE IF Head(authHeader) = "Bearer " /\ Tail(authHeader) # << >>
    THEN FirstWord(Tail(authHeader))
  ELSE Undefined

UnauthorizedResponse ==
  [ status |-> 401, error |-> "Unauthorized", message |-> "Valid API key required" ]
NoTokenResponse ==
  [ status |-> 401, error |-> "Access denied", message |-> "No token provided" ]
InvalidTokenResponse ==
  [ status |-> 403, error |-> "Access denied", message |-> "Invalid or expired token" ]

\* What a middleware does: it calls next() or it sends a response.
CallsNext == [ next |-> TRUE, response |-> [ status |-> 0 ] ]
Answers(response) == [ next |-> FALSE, response |-> response ]

\* apiKey of authenticateAgent
AgentKeyOf(h) ==
  IF Truthy(h.xApiKey) THEN h.xApiKey
  ELSE IF h.authorization = Undefined THEN Undefined
  ELSE ReplaceBearer(h.authorization)

\* Mutant of authenticateAgent: a request without key passes.
authenticateAgent_KeyOptional(h) ==
  IF Truthy(AgentKeyOf(h)) /\ AgentKeyOf(h) # ConfiguredApiKey
    THEN Answers(UnauthorizedResponse)
    ELSE CallsNext

\* authenticateAgent: whether it calls next(), and the response it sends
authenticateAgent(h) ==
  IF ~Truthy(AgentKeyOf(h)) \/ AgentKeyOf(h) # ConfiguredApiKey
    THEN Answers(UnauthorizedResponse)
    ELSE CallsNext

\* authenticateToken: whether it calls next(), and the response it sends
authenticateToken(h) ==
  IF ~Truthy(SecondWord(h.authorization)) THEN Answers(NoTokenResponse)
  ELSE IF SecondWord(h.authorization) # ValidJwt THEN Answers(InvalidTokenResponse)
  ELSE CallsNext

\* The middleware of the server the request is sent to.
Middleware(h) == IF h.server = "agent" THEN authenticateAgent(h) ELSE authenticateToken(h)

\* The middleware answers and the request is over.
Rejected(r, response) ==
  /\ Arrives(r)
  /\ kind' = [ kind EXCEPT ![r] = "unauthorized" ]
  /\ pc' = [ pc EXCEPT ![r] = "done" ]
  /\ responses' = [ responses EXCEPT ![r] = Append(@, response) ]
  /\ UNCHANGED << confirm, action, service, site, commands, audits, result,
                  registry, queryVars, statusRun, apiKeyVars >>

\* A client sends POST /api/control/service/a/s with headers h to the agent
\* server or to the backend server: app.use('/api/control', middleware,
\* controlRoutes).
ProtectedService(r, h, a, s, sinkOk) ==
  /\ headers' = [ headers EXCEPT ![r] = h ]
  /\ IF Middleware(h).next THEN ServiceRoute(r, a, s, sinkOk)
                          ELSE Rejected(r, Middleware(h).response)

\* A client sends POST /api/control/cache/clear-site to the agent server.
ProtectedClearSite(r, h, s, sinkOk, sinkOkInCatch) ==
  /\ headers' = [ headers EXCEPT ![r] = h ]
  /\ IF Middleware(h).next THEN ClearSiteRoute(r, s, sinkOk, sinkOkInCatch)
                          ELSE Rejected(r, Middleware(h).response)

\* -------------------------------------------------- GET /services/status

\* What `systemctl status` printed when it exited with status 0: whether the
\* output contains 'Active: active', and 'Loaded:' together with 'enabled'.
StatusOutputs == [ active : BOOLEAN, enabled : BOOLEAN ]

\* parsed of getServiceStatus when executeSystemCtl returned output
Parsed(output) ==
  [ active |-> output.active, enabled |-> output.enabled,
    status |-> IF output.active THEN "active" ELSE "inactive" ]

\* parsed of getServiceStatus when executeSystemCtl threw
NotFound == [ active |-> FALSE, enabled |-> FALSE, status |-> "not-found" ]

\* results[name] = parsed
WithResult(results, name, parsed) ==
  [ n \in DOMAIN results \cup { name } |-> IF n = name THEN parsed ELSE results[n] ]

\* Mutant of AliasEntry: the candidates are counted, not the active ones.
AliasEntry_CountsCandidates(services, results) ==
  LET activeServices ==
        SelectSeq(services, LAMBDA s : s \in DOMAIN results /\ results[s].active) IN
    [ services |-> services, activeCount |-> Len(services),
      active |-> Len(services) > 0, activeServices |-> activeServices ]

\* aliasInfo[alias] of getAllServicesStatus; results[s]?.active is falsy for
\* a candidate without result.
AliasEntry(services, results) ==
  LET activeServices ==
        SelectSeq(services, LAMBDA s : s \in DOMAIN results /\ results[s].active) IN
    [ services |-> services, activeCount |-> Len(activeServices),
      active |-> Len(activeServices) > 0, activeServices |-> activeServices ]

\* aliasInfo of getAllServicesStatus
AliasInfo(results) ==
  [ alias \in DOMAIN serviceAliases |-> AliasEntry(serviceAliases[alias], results) ]

\* Mutant of AliasMapAfterInfo: the candidates are filtered in place.
AliasMapAfterInfo_InPlace(results) ==
  [ alias \in DOMAIN serviceAliases |->
      AliasEntry(serviceAliases[alias], results).activeServices ]

\* this.serviceAliases after the loop that builds aliasInfo: services.filter
\* returns a new array, and the map is only read.
AliasMapAfterInfo(results) == serviceAliases

\* The loop of getAllServicesStatus from service i on, up to its next await
\* of a status command: a service whose executeSystemCtl throws before the
\* spawn is recorded as not found and the loop goes on; after the last
\* service the alias information is built and the result returned.
RECURSIVE StatusLoop(_, _)
StatusLoop(i, results) ==
  IF i > Len(allowedServices)
    THEN [ pc |-> "done", i |-> i, results |-> results, aliases |-> AliasInfo(results) ]
  ELSE IF TryBlock("status", allowedServices[i]).spawn
    THEN [ pc |-> "waiting", i |-> i, results |-> results, aliases |-> NoStatusRun.aliases ]
  ELSE StatusLoop(i + 1, WithResult(results, allowedServices[i], NotFound))

\* The handler of GET /services/status after a part of the loop: when the
\* run is over it has read the alias map and answers with the result.
StatusContinues(run) ==
  /\ statusRun' = run
  /\ serviceAliases' = IF run.pc = "done" THEN AliasMapAfterInfo(run.results)
                                          ELSE serviceAliases
  /\ UNCHANGED << allowedServices, requestVars, queryVars, apiKeyVars >>

\* A client sends GET /services/status: getAllServicesStatus starts.
StatusReceive ==
  /\ statusRun.pc = "idle"
  /\ StatusContinues(StatusLoop(1, NoStatusRun.results))

\* The status command of service i of the run ends: with exit status 0 and
\* output (then the SYSTEMCTL_SUCCESS event is written, and a throwing write
\* makes executeSystemCtl throw), or with a failure. getServiceStatus returns
\* parsed either way, and the loop goes on.
StatusCommandEnd(exitOk, output, sinkOk) ==
  /\ statusRun.pc = "waiting"
  /\ LET name == allowedServices[statusRun.i]
         parsed == IF exitOk /\ sinkOk THEN Parsed(output) ELSE NotFound IN
       StatusContinues(StatusLoop(statusRun.i + 1,
                                  WithResult(statusRun.results, name, parsed)))

\* Registries of at most three services, for which every combination of
\* outcomes of the status commands is run.
StatusRegistries == (Registries \ { AgentConfig }) \cup GeneratedRegistries

InitStatus ==
  /\ \E reg \in StatusRegistries :
       /\ allowedServices = reg.controllable
       /\ serviceAliases = reg.aliases
  /\ IdleRequests
  /\ query = NoQuery
  /\ answer = FALSE
  /\ statusRun = NoStatusRun
  /\ NoKeyRequests

\* The requests of POST /service/:action/:service that are in flight while
\* getAllServicesStatus runs.
MaxStatusPeers == 1
StatusPeers == 1..MaxStatusPeers

\* A run of getAllServicesStatus interleaved with requests of the route; both
\* go through executeSystemCtl, and so through isServiceAllowed and
\* resolveServiceName.
NextStatus ==
  \/ StatusReceive
  \/ \E exitOk \in BOOLEAN, output \in StatusOutputs, sinkOk \in BOOLEAN :
       StatusCommandEnd(exitOk, output, sinkOk)
  \/ \E r \in StatusPeers, a \in RouteActionInputs, s \in ServiceInputs, sinkOk \in BOOLEAN :
       RouteReceive(r, a, s, sinkOk)
  \/ \E r \in StatusPeers, outcome \in Outcomes, sinkOk \in BOOLEAN, sinkOkInCatch \in BOOLEAN :
       ExecEnd(r, outcome, sinkOk, sinkOkInCatch)

SpecStatus == InitStatus /\ [][NextStatus]_vars

\* The API key routes alone, from every env file.
InitApiKey ==
  /\ allowedServices = AgentConfig.controllable
  /\ serviceAliases = AgentConfig.aliases
  /\ IdleRequests
  /\ query = NoQuery
  /\ answer = FALSE
  /\ statusRun = NoStatusRun
  /\ \E envLines \in EnvFiles :
       /\ envFile = envLines
       /\ processEnv = LoadedKey(envLines)
  /\ keyRequests = [ k \in KeyRequests |-> IdleKeyRequest ]

NextApiKey ==
  \/ \E k \in KeyRequests, input \in UpdateInputs, readOk \in BOOLEAN :
       UpdateReceive(k, input, readOk)
  \/ \E k \in KeyRequests, writeOk \in BOOLEAN, sinkOk \in BOOLEAN :
       UpdateWritten(k, writeOk, sinkOk)
  \/ \E k \in KeyRequests, readOk \in BOOLEAN : SetupTokenReceive(k, readOk)
  \/ \E k \in KeyRequests, writeOk \in BOOLEAN : SetupTokenWritten(k, writeOk)

SpecApiKey == InitApiKey /\ [][NextApiKey]_vars

\* The requests sent to the servers through their authentication middleware.
MaxProtectedRequests == 1
ProtectedRequests == 1..MaxProtectedRequests

\* The agent server and the backend server with the shipped configuration:
\* every request passes the middleware of its server before a control route.
NextProtected ==
  \/ \E r \in ProtectedRequests :
       /\ Arrives(r)
       /\ \E server \in { "agent", "backend" },
             x \in XApiKeyInputs, authorization \in AuthorizationInputs,
             a \in RouteActionInputs, s \in ServiceInputs, sinkOk \in BOOLEAN :
            ProtectedService(r, Headers(server, x, authorization), a, s, sinkOk)
  \/ \E r \in ProtectedRequests :
       /\ Arrives(r)
       /\ \E x \in XApiKeyInputs, authorization \in AuthorizationInputs,
             s \in SiteInputs, sinkOk \in BOOLEAN, sinkOkInCatch \in BOOLEAN :
            ProtectedClearSite(r, Headers("agent", x, authorization), s, sinkOk, sinkOkInCatch)
  \/ \E r \in ProtectedRequests, outcome \in Outcomes, sinkOk \in BOOLEAN,
        sinkOkInCatch \in BOOLEAN :
       ExecEnd(r, outcome, sinkOk, sinkOkInCatch)
  \/ \E r \in ProtectedRequests, exitOk \in BOOLEAN, sinkOk \in BOOLEAN,
        sinkOkInCatch \in BOOLEAN :
       ClearSiteEnd(r, exitOk, sinkOk, sinkOkInCatch)

InitProtected ==
  /\ allowedServices = AgentConfig.controllable
  /\ serviceAliases = AgentConfig.aliases
  /\ IdleRequests
  /\ query = NoQuery
  /\ answer = FALSE
  /\ statusRun = NoStatusRun
  /\ NoKeyRequests

SpecProtected == InitProtected /\ [][NextProtected]_vars

Init ==
  /\ \E reg \in Registries :
       /\ allowedServices = reg.controllable
       /\ serviceAliases = reg.aliases
  /\ IdleRequests
  /\ query = NoQuery
  /\ answer = FALSE
  /\ statusRun = NoStatusRun
  /\ NoKeyRequests

Next ==
  \/ \E r \in Requests, a \in RouteActionInputs, s \in ServiceInputs, sinkOk \in BOOLEAN :
       RouteReceive(r, a, s, sinkOk)
  \/ \E r \in Requests, a \in CallActionInputs, s \in ServiceInputs, sinkOk \in BOOLEAN :
       CallReceive(r, a, s, sinkOk)
  \/ \E r \in Requests, outcome \in Outcomes, sinkOk \in BOOLEAN, sinkOkInCatch \in BOOLEAN :
       ExecEnd(r, outcome, sinkOk, sinkOkInCatch)
  \/ \E r \in Requests, c \in ConfirmInputs, sinkOk \in BOOLEAN, sinkOkInCatch \in BOOLEAN :
       RestartServerReceive(r, c, sinkOk, sinkOkInCatch)
  \/ \E r \in Requests, sinkOk \in BOOLEAN : RestartTimerFires(r, sinkOk)
  \/ \E r \in Requests : ShutdownEnd(r)

Spec == Init /\ [][Next]_vars

\* The requests of POST /service/:action/:service alone.
NextRoute ==
  \/ \E r \in Requests, a \in RouteActionInputs, s \in ServiceInputs, sinkOk \in BOOLEAN :
       RouteReceive(r, a, s, sinkOk)
  \/ \E r \in Requests, outcome \in Outcomes, sinkOk \in BOOLEAN, sinkOkInCatch \in BOOLEAN :
       ExecEnd(r, outcome, sinkOk, sinkOkInCatch)

\* execAsync is given a timeout (30 s unless options.timeout is set): a
\* subprocess that has not ended by then is killed, so the await of every
\* spawned command ends.
SpecLive ==
  /\ Init
  /\ [][NextRoute]_vars
  /\ \A r \in Requests :
    WF_vars(\E outcome \in Outcomes, sinkOk \in BOOLEAN, sinkOkInCatch \in BOOLEAN :
              ExecEnd(r, outcome, sinkOk, sinkOkInCatch))

\* The requests of POST /restart/server alone.
NextRestart ==
  \/ \E r \in Requests, c \in ConfirmInputs, sinkOk \in BOOLEAN, sinkOkInCatch \in BOOLEAN :
       RestartServerReceive(r, c, sinkOk, sinkOkInCatch)
  \/ \E r \in Requests, sinkOk \in BOOLEAN : RestartTimerFires(r, sinkOk)
  \/ \E r \in Requests : ShutdownEnd(r)

\* setTimeout(..., 5000) runs its callback 5 seconds after the response, and
\* the shutdown command only schedules the reboot (+1) and returns.
SpecRestart ==
  /\ Init
  /\ [][NextRestart]_vars
  /\ \A r \in Requests :
       /\ WF_vars(\E sinkOk \in BOOLEAN : RestartTimerFires(r, sinkOk))
       /\ WF_vars(ShutdownEnd(r))

\* ---------------------------------------------------------------- claims

Range(seq) == { seq[i] : i \in 1..Len(seq) }

\* The allow-list as the specification words it: a controllable service, or
\* an alias key with at least one controllable candidate.
AllowListed(name) ==
  \/ name \in Range(allowedServices)
  \/ /\ name \in DOMAIN serviceAliases
     /\ Range(serviceAliases[name]) \cap Range(allowedServices) # {}

\* The fixed enum of actions of the specification.
ActionEnum == { "start", "stop", "restart", "reload", "status", "is-active", "is-enabled" }

Started(r) == pc[r] # "idle"
ServiceControl(r) == kind[r] \in { "route", "call" }
Settled(r) == result[r] # << >>
Answered(r) == responses[r] # << >>
WrittenEvents(r) == SelectSeq(audits[r], LAMBDA e : e.written)
NoAuditWriteFailed(r) == \A i \in 1..Len(audits[r]) : audits[r][i].written

\* C1: a request or call whose service is neither controllable nor an alias
\* with a controllable candidate spawns no subprocess and has failed: it is
\* over at once, and executeSystemCtl, where it was called, threw.
C1_DisallowedNeverExecuted ==
  \A r \in Requests :
    (ServiceControl(r) /\ ~AllowListed(service[r])) =>
      /\ commands[r] = << >>
      /\ pc[r] = "done"
      /\ kind[r] = "call" => Settled(r)
      /\ Settled(r) => ~result[r][1].success
      /\ Answered(r) => ~responses[r][1].success

\* C1 witness: executeSystemCtl was called with a valid action for an alias
\* none of whose candidates is controllable, and threw.
C1_Witness ==
  \E r \in Requests :
    /\ kind[r] = "call" /\ pc[r] = "done"
    /\ action[r] \in ActionEnum
    /\ service[r] \in DOMAIN serviceAliases
    /\ ~AllowListed(service[r])
    /\ result[r][1].error = ServiceNotAllowed(service[r]).name
    /\ commands[r] = << >>

\* C2: the service argument of every spawned systemctl command is a member
\* of the controllable list, and it is not the request's string unless that
\* string is itself a controllable service.
C2_CommandServiceIsControllable ==
  \A r \in Requests : \A i \in 1..Len(commands[r]) :
    commands[r][i][2] = "systemctl" =>
      /\ commands[r][i][4] \in Range(allowedServices)
      /\ service[r] \notin Range(allowedServices) => commands[r][i][4] # service[r]

\* C2 witness: a command was spawned for an alias whose first candidate is
\* not controllable.
C2_Witness ==
  \E r \in Requests :
    /\ commands[r] # << >>
    /\ service[r] \in DOMAIN serviceAliases
    /\ serviceAliases[service[r]][1] \notin Range(allowedServices)

\* C3: the action of every spawned systemctl command is in the fixed enum,
\* and a request or call with any other action is over without a subprocess
\* and has been rejected.
C3_CommandActionInEnum ==
  \A r \in Requests :
    /\ \A i \in 1..Len(commands[r]) :
         commands[r][i][2] = "systemctl" => commands[r][i][3] \in ActionEnum
    /\ (ServiceControl(r) /\ action[r] \notin ActionEnum) =>
         /\ commands[r] = << >>
         /\ pc[r] = "done"
         /\ kind[r] = "call" => Settled(r) /\ ~result[r][1].success
         /\ kind[r] = "route" => Answered(r) /\ ~responses[r][1].success

\* C3 witness: executeSystemCtl was called with an action outside the enum
\* for an allow-listed service, and threw.
C3_Witness ==
  \E r \in Requests :
    /\ kind[r] = "call" /\ pc[r] = "done"
    /\ action[r] \notin ActionEnum
    /\ AllowListed(service[r])
    /\ result[r][1].error = ActionNotAllowed(action[r]).name
    /\ commands[r] = << >>

\* C4 (as claimed): every answered request of POST /service/:action/:service
\* has exactly one audit event, here for the requests none of whose audit
\* writes failed.
C4_ExactlyOneAuditEvent ==
  \A r \in Requests :
    (kind[r] = "route" /\ Answered(r) /\ NoAuditWriteFailed(r)) =>
      Len(WrittenEvents(r)) = 1

\* C5 (as claimed): when the command of a request exited with status 0, the
\* request is answered with a response that reports success, whether or not
\* the audit write failed.
C5_AuditFailureKeepsResponse ==
  \A r \in Requests :
    (kind[r] = "route" /\ pc[r] = "done" /\ Settled(r) /\ result[r][1].exit = "ok") =>
      /\ Len(responses[r]) = 1
      /\ responses[r][1].success
      /\ responses[r][1].status = 200

\* C6 (as claimed): a request or call whose action is outside the fixed enum
\* is rejected with the invalid-action error whatever its service is, here for
\* the requests none of whose audit writes failed.
C6_InvalidActionReportedFirst ==
  \A r \in Requests :
    (ServiceControl(r) /\ action[r] \notin ActionEnum /\ NoAuditWriteFailed(r)) =>
      /\ kind[r] = "route" => Answered(r) /\ responses[r][1].error = "Invalid action"
      /\ kind[r] = "call" => Settled(r) /\ result[r][1].error = ActionNotAllowed(action[r]).name

Resolved == query.fn = "resolveServiceName"

\* C7: resolveServiceName of an alias with a controllable candidate returns
\* the candidate of least index that is controllable; database of the shipped
\* configuration resolves to mysql.
C7_AliasResolvesToFirstAllowed ==
  /\ (Resolved /\ query.name \in DOMAIN serviceAliases) =>
       LET candidates == serviceAliases[query.name] IN
         \A i \in 1..Len(candidates) :
           (/\ candidates[i] \in Range(allowedServices)
            /\ \A j \in 1..(i - 1) : candidates[j] \notin Range(allowedServices))
             => answer = candidates[i]
  /\ (/\ Resolved /\ query.name = "database"
      /\ allowedServices = AgentConfig.controllable
      /\ serviceAliases = AgentConfig.aliases) => answer = "mysql"

\* C7 witness: an alias with two controllable candidates was resolved, to the
\* first of them.
C7_Witness ==
  /\ Resolved /\ query.name \in DOMAIN serviceAliases
  /\ LET candidates == serviceAliases[query.name] IN
       /\ Len(candidates) = 2
       /\ Range(candidates) \subseteq Range(allowedServices)
       /\ candidates[1] # candidates[2]
       /\ answer = candidates[1]

\* C8 (as claimed): resolveServiceName of a controllable service returns the
\* name unchanged, also when the name is a key of the alias map.
C8_DirectNameUnchanged ==
  (Resolved /\ query.name \in Range(allowedServices)) => answer = query.name

\* C9 (as claimed): resolveServiceName fails for an alias without
\* controllable candidate and for a name that is neither controllable nor an
\* alias: it returns no name.
C9_UnresolvableFails ==
  (Resolved /\ ~AllowListed(query.name)) => answer = NotIterable

\* C10: isServiceAllowed(name) is true exactly when name is controllable or
\* an alias key with a controllable candidate, and the call leaves the
\* controllable list and the alias map as they were.
C10_AllowedIffListed ==
  [][ query'.fn = "isServiceAllowed" =>
        /\ answer' = AllowListed(query'.name)
        /\ allowedServices' = allowedServices
        /\ serviceAliases' = serviceAliases ]_vars

\* C10 witness: isServiceAllowed was asked about an alias some but not all of
\* whose candidates are controllable, and said yes.
C10_Witness ==
  /\ query.fn = "isServiceAllowed"
  /\ query.name \in DOMAIN serviceAliases
  /\ query.name \notin Range(allowedServices)
  /\ ~(Range(serviceAliases[query.name]) \subseteq Range(allowedServices))
  /\ answer = TRUE

\* C11 (as claimed): a request of the route with an action of the fixed enum
\* and a target outside the allow-list is answered with status 400 or 404 and
\* success false.
C11_DeniedTargetIs4xx ==
  \A r \in Requests :
    (/\ kind[r] = "route" /\ Answered(r)
     /\ action[r] \in ActionEnum
     /\ ~AllowListed(service[r])) =>
      /\ responses[r][1].status \in { 400, 404 }
      /\ ~responses[r][1].success

\* C12 (as claimed): a request of the route with any action of the fixed enum
\* for an allow-listed service reaches the executor: a command is spawned.
C12_RouteAcceptsWholeEnum ==
  \A r \in Requests :
    (/\ kind[r] = "route" /\ Started(r)
     /\ action[r] \in ActionEnum
     /\ AllowListed(service[r])) => Len(commands[r]) = 1

\* C13 (as claimed): a request spawns at most one command and, once over,
\* has exactly one response; when its command failed or timed out, that
\* response has status 500 and carries the error of the command.
C13_OneAttemptOneResponse ==
  \A r \in Requests :
    /\ Len(commands[r]) <= 1
    /\ Len(responses[r]) <= 1
    /\ (kind[r] = "route" /\ pc[r] = "done") => Len(responses[r]) = 1
    /\ (/\ kind[r] = "route" /\ pc[r] = "done" /\ Settled(r)
        /\ result[r][1].exit \in { "failed", "timeout" }) =>
         /\ responses[r][1].status = 500
         /\ responses[r][1].message =
              IF result[r][1].exit = "failed"
                THEN CommandFailed(commands[r][1]).name
                ELSE CommandTimedOut(commands[r][1]).name

\* C15 (as claimed): the response to a request denied by the allow-list does
\* not contain the text that the service is not allowed to be controlled.
C15_DenialReasonNotLeaked ==
  \A r \in Requests :
    (kind[r] = "route" /\ Answered(r) /\ ~AllowListed(service[r])) =>
      responses[r][1].message # ServiceNotAllowed(service[r]).name

\* C20 (as claimed): no service-control operation runs sudo or a shell
\* command line: no spawned command starts with sudo.
C20_NoSudoNoShell ==
  \A r \in Requests : \A i \in 1..Len(commands[r]) :
    ServiceControl(r) => commands[r][i][1] # "sudo"

\* C14 (as claimed): every response to a control request includes a
\* requestId, and every audit event of the request records that requestId.
C14_RequestIdEverywhere ==
  \A r \in Requests : \A i \in 1..Len(responses[r]) :
    /\ "requestId" \in DOMAIN responses[r][i]
    /\ \A j \in 1..Len(audits[r]) :
         /\ "requestId" \in DOMAIN audits[r][j]
         /\ audits[r][j].requestId = responses[r][i].requestId

\* C16: every request of the route whose command was spawned is eventually
\* over with exactly one response, and a request whose command was killed at
\* the timeout has failed and is answered with a failure response.
C16_ExecutingLeadsToResponse ==
  /\ \A r \in Requests :
       (kind[r] = "route" /\ pc[r] = "executing") ~>
         (pc[r] = "done" /\ Len(responses[r]) = 1)
  /\ [](\A r \in Requests :
         (kind[r] = "route" /\ Settled(r) /\ result[r][1].exit = "timeout") =>
           /\ ~result[r][1].success
           /\ Len(responses[r]) = 1
           /\ responses[r][1].status = 500
           /\ ~responses[r][1].success)

\* C16 witness: the command of a request timed out and the request was
\* answered with the timeout error in a 500 response.
C16_Witness ==
  \E r \in Requests :
    /\ kind[r] = "route" /\ pc[r] = "done"
    /\ commands[r] # << >>
    /\ result[r][1].exit = "timeout"
    /\ responses[r][1].status = 500
    /\ responses[r][1].message = CommandTimedOut(commands[r][1]).name

\* C18: a request of the route with an accepted action for an allow-listed
\* service spawns its command in the step it arrives, whatever the other
\* requests are doing; and every such request, once over, has its one command,
\* its one response and its own audit event, each with its own requestId.
C18_ConcurrentRequestsIndependent ==
  /\ [][ \A r \in Requests :
          (/\ pc[r] = "idle" /\ kind'[r] = "route"
           /\ Includes(routeAllowedActions, action'[r])
           /\ AllowListed(service'[r])) =>
            (pc'[r] = "executing" /\ Len(commands'[r]) = 1) ]_vars
  /\ [](\A r \in Requests :
         (kind[r] = "route" /\ pc[r] = "done" /\ commands[r] # << >>) =>
           /\ Len(commands[r]) = 1
           /\ Len(responses[r]) = 1 /\ responses[r][1].requestId = r
           /\ Len(audits[r]) >= 1
           /\ \A j \in 1..Len(audits[r]) : audits[r][j].requestId = r
           /\ NoAuditWriteFailed(r) => Len(audits[r]) = 1)

\* C18 witness: two requests to restart the same service are executing at
\* the same time, each with its own command.
C18_Witness ==
  \E r1, r2 \in Requests :
    /\ r1 # r2
    /\ kind[r1] = "route" /\ kind[r2] = "route"
    /\ pc[r1] = "executing" /\ pc[r2] = "executing"
    /\ action[r1] = action[r2] /\ service[r1] = service[r2]
    /\ commands[r1] = commands[r2] /\ Len(commands[r1]) = 1

\* C17: the result of getAllServicesStatus has an entry with a status for
\* every controllable service and an entry for every alias, in which
\* activeServices is drawn from the alias's candidates, activeCount is its
\* length and active says whether it is positive.
C17_StatusResultComplete ==
  statusRun.pc = "done" =>
    /\ DOMAIN statusRun.results = Range(allowedServices)
    /\ \A n \in DOMAIN statusRun.results :
         statusRun.results[n].status \in { "active", "inactive", "not-found", "error" }
    /\ DOMAIN statusRun.aliases = DOMAIN serviceAliases
    /\ \A alias \in DOMAIN statusRun.aliases :
         LET info == statusRun.aliases[alias] IN
           /\ info.services = serviceAliases[alias]
           /\ Range(info.activeServices) \subseteq Range(serviceAliases[alias])
           /\ \A n \in Range(info.activeServices) :
                n \in DOMAIN statusRun.results /\ statusRun.results[n].active
           /\ info.activeCount = Len(info.activeServices)
           /\ info.active <=> info.activeCount > 0

\* C17 witness: a run is over in which one candidate of an alias is active
\* and another one is controllable but its status command failed.
C17_Witness ==
  /\ statusRun.pc = "done"
  /\ \E alias \in DOMAIN serviceAliases :
       LET info == statusRun.aliases[alias] IN
         /\ info.activeCount = 1
         /\ \E n \in Range(info.services) :
              /\ n \in DOMAIN statusRun.results
              /\ statusRun.results[n].status = "not-found"

\* C19: no step of the service changes the controllable list or the alias
\* map, so both stay what they were at process start.
C19_RegistryNeverChanges ==
  [][ allowedServices' = allowedServices /\ serviceAliases' = serviceAliases ]_vars

\* C19 witness: a run of getAllServicesStatus is over that found a candidate
\* of an alias inactive, and the alias still has its candidates.
C19_Witness ==
  /\ statusRun.pc = "done"
  /\ \E r \in Requests : kind[r] = "route" /\ Settled(r) /\ commands[r] # << >>
  /\ \E alias \in DOMAIN serviceAliases :
       /\ Len(serviceAliases[alias]) > 0
       /\ statusRun.aliases[alias].activeCount < Len(serviceAliases[alias])

\* The whole value of the first line NAME=value of the env file, null when
\* there is no such line.
StoredInFile(envLines, name) ==
  IF \E i \in 1..Len(envLines) : envLines[i].name = name
    THEN envLines[CHOOSE i \in 1..Len(envLines) :
                    /\ envLines[i].name = name
                    /\ \A j \in 1..(i - 1) : envLines[j].name # name].value
    ELSE Null

\* The request presents the API key or the setup token the env file holds.
PresentsStored(input, envLines) ==
  \/ /\ Truthy(StoredInFile(envLines, "API_KEY"))
     /\ input.xApiKey = StoredInFile(envLines, "API_KEY")
  \/ /\ Truthy(StoredInFile(envLines, "SETUP_TOKEN"))
     /\ \/ input.xSetupToken = StoredInFile(envLines, "SETUP_TOKEN")
        \/ input.setupToken = StoredInFile(envLines, "SETUP_TOKEN")

KeyUpdate(k) == keyRequests[k].route = "update"
KeyUpdateSucceeded(k) ==
  KeyUpdate(k) /\ keyRequests[k].pc = "done" /\ keyRequests[k].status = 200
KeyRoutesQuiet == \A k \in KeyRequests : keyRequests[k].pc \in { "idle", "done" }

\* C25: an update request that presents neither the API key nor the setup
\* token the env file holds is over at once with 401 (400 for a malformed new
\* key, 500 when the env file cannot be read) and changes neither the env
\* file nor process.env.API_KEY.
C25_UpdateNeedsStoredCredential ==
  [][ \A k \in KeyRequests :
        (/\ keyRequests[k].pc = "idle"
         /\ keyRequests'[k].route = "update"
         /\ ~PresentsStored(keyRequests'[k].input, envFile)) =>
          /\ keyRequests'[k].pc = "done"
          /\ \/ keyRequests'[k].status \in { 400, 401 }
             \/ keyRequests'[k].status = 500 /\ keyRequests'[k].read = << >>
          /\ envFile' = envFile
          /\ processEnv' = processEnv ]_vars

\* C26: no two update requests that were authenticated by a setup token and
\* succeeded presented the same token.
C26_SetupTokenSingleUse ==
  \A j \in KeyRequests : \A k \in KeyRequests :
    (/\ j # k
     /\ KeyUpdateSucceeded(j) /\ keyRequests[j].authMethod = "setup_token"
     /\ KeyUpdateSucceeded(k) /\ keyRequests[k].authMethod = "setup_token") =>
      ({ keyRequests[j].input.xSetupToken, keyRequests[j].input.setupToken }
         \cap { keyRequests[k].input.xSetupToken, keyRequests[k].input.setupToken })
        \subseteq { Undefined }

\* C27: a setup token is stored in the env file only in a step in which the
\* file holds no non-empty API key; a setup-token request that finds a
\* non-empty API key is over at once with 400 (500 when the env file cannot
\* be read) and the env file is unchanged.
C27_SetupTokenOnlyWithoutKey ==
  [][ /\ (/\ StoredInFile(envFile', "SETUP_TOKEN") # StoredInFile(envFile, "SETUP_TOKEN")
          /\ Truthy(StoredInFile(envFile', "SETUP_TOKEN"))) =>
           ~Truthy(StoredInFile(envFile, "API_KEY"))
      /\ \A k \in KeyRequests :
           (/\ keyRequests[k].pc = "idle"
            /\ keyRequests'[k].route = "setup-token"
            /\ Truthy(StoredInFile(envFile, "API_KEY"))) =>
             /\ keyRequests'[k].pc = "done"
             /\ \/ keyRequests'[k].status = 400
                \/ keyRequests'[k].status = 500 /\ keyRequests'[k].read = << >>
             /\ envFile' = envFile ]_vars

\* C28: when no request of the API key routes is in flight and an update has
\* succeeded, the env file holds a non-empty API_KEY equal to
\* process.env.API_KEY.
C28_FileKeyIsRuntimeKey ==
  (KeyRoutesQuiet /\ \E k \in KeyRequests : KeyUpdateSucceeded(k)) =>
    /\ Truthy(StoredInFile(envFile, "API_KEY"))
    /\ StoredInFile(envFile, "API_KEY") = processEnv

\* C29: when an update to the key K has succeeded and the env file holds K,
\* an update request that presents K in X-API-Key (and whose read of the env
\* file is served) is not answered with 401.
C29_NewKeyAuthorizes ==
  [][ \A k \in KeyRequests :
        (/\ keyRequests[k].pc = "idle"
         /\ keyRequests'[k].route = "update"
         /\ KeyRoutesQuiet
         /\ StoredInFile(envFile, "API_KEY") = keyRequests'[k].input.xApiKey
         /\ \E j \in KeyRequests :
              /\ KeyUpdateSucceeded(j)
              /\ keyRequests[j].input.newApiKey = keyRequests'[k].input.xApiKey) =>
          keyRequests'[k].status # 401 ]_vars

\* C21: a request to the backend server whose only credential is the correct
\* API key in X-API-Key reaches the route handler.
C21_BackendAcceptsApiKey ==
  \A r \in Requests :
    (/\ headers[r].server = "backend"
     /\ headers[r].xApiKey = ConfiguredApiKey
     /\ headers[r].authorization = Undefined) =>
      kind[r] \in { "route", "clear-site" }

\* The request carries the configured API key: in X-API-Key, or in
\* Authorization with or without the scheme word.
CarriesApiKey(h) ==
  \/ h.xApiKey = ConfiguredApiKey
  \/ h.authorization = ConfiguredApiKey
  \/ h.authorization = << "Bearer " >> \o ConfiguredApiKey

\* C22: a request to the agent server that does not carry the configured API
\* key reaches no handler: it is over with one 401/403 response, and no
\* command, no audit event and no result exists for it.
C22_AgentRequiresApiKey ==
  \A r \in Requests :
    (headers[r].server = "agent" /\ ~CarriesApiKey(headers[r])) =>
      /\ kind[r] = "unauthorized"
      /\ pc[r] = "done"
      /\ commands[r] = << >> /\ audits[r] = << >> /\ result[r] = << >>
      /\ Len(responses[r]) = 1
      /\ responses[r][1].status \in { 401, 403 }

\* C22 witness: a request with a wrong key in X-API-Key and none in
\* Authorization was answered with 401.
C22_Witness ==
  \E r \in Requests :
    /\ headers[r] = Headers("agent", << "W" >>, Undefined)
    /\ kind[r] = "unauthorized"
    /\ responses[r] = << UnauthorizedResponse >>

\* The words of the command templates of the control routes.
CommandWords == { "sudo", "systemctl", "shutdown", "-r", "+1", "gp", "site", "cache", "clear" }

\* C24: every word of every command that is run is a word of a command
\* template, an action of the enum or a name of the controllable list.
C24_CommandsFromConstantsOnly ==
  \A r \in Requests : \A i \in 1..Len(commands[r]) : \A j \in 1..Len(commands[r][i]) :
    commands[r][i][j] \in CommandWords \cup Range(allowedActions) \cup Range(allowedServices)

\* C23: a request to POST /restart/server whose confirm field is not "yes" is
\* over with the one 400 response, with no timer set, no command and no audit
\* event; a restart is scheduled or a shutdown command run only for a request
\* whose confirm field is "yes".
C23_RestartOnlyWhenConfirmed ==
  \A r \in Requests :
    kind[r] = "restart-server" =>
      /\ confirm[r] # "yes" =>
           /\ pc[r] = "done"
           /\ responses[r] = << ConfirmationRequiredResponse >>
           /\ responses[r][1].status = 400
           /\ commands[r] = << >>
           /\ audits[r] = << >>
      /\ (pc[r] \in { "scheduled", "shutting-down" } \/ commands[r] # << >>) =>
           confirm[r] = "yes"

\* C23 witness: a request with confirm "no" was answered with 400 while the
\* shutdown command of a request with confirm "yes" is running.
C23_Witness ==
  \E r1, r2 \in Requests :
    /\ kind[r1] = "restart-server" /\ confirm[r1] = "no"
    /\ responses[r1] = << ConfirmationRequiredResponse >>
    /\ kind[r2] = "restart-server" /\ confirm[r2] = "yes"
    /\ commands[r2] = << ShutdownCommand >>

====
